---- MODULE Spec2Model ----
(***************************************************************************)
(* A model of src/2_domain_adaptation/data/enumeration.py: the cyclic      *)
(* batch-index generator (Iterator._flow_index), the batch materializer    *)
(* (SmilesIterator.next), the one-hot string codec (SmilesEnumerator.fit,  *)
(* transform, reverse_transform) and the two augmentation generators       *)
(* (enumerate_smiles, enumerate_smiles_hard_neg).                          *)
(*                                                                         *)
(* Strings are sequences of one-character strings.  An index array is a    *)
(* 1-based sequence holding the 0-based indices of the code.  The          *)
(* process-wide numpy random state is one number, np_random: seeding sets  *)
(* it and every draw advances it.  A permutation is a function of the      *)
(* state it is drawn in; the value of any other draw (a uniform number, a  *)
(* choice, the toolkit's atom order) is taken as arbitrary.                *)
(***************************************************************************)
EXTENDS Integers, Sequences, FiniteSets, TLC

VARIABLES
    \* Iterator.__init__ arguments (shared by the iterators of a run)
    n, batch_size, shuffle, seed,
    \* Iterator fields, one per iterator instance
    batch_index, total_batches_seen, index_array,
    \* the process-wide numpy random state
    np_random,
    \* history of the windows each iterator yielded, the windows of the epoch
    \* in progress, and the draws other work made from np_random
    hist, run, otherDraws,
    \* SmilesIterator.next called from several threads: the lock's holder, each
    \* caller's position, the window it was handed, its position in the item loop
    lock, pc, handed, item, pulls,
    \* SmilesEnumerator fields: charset (from which _charlen, _char_to_int and
    \* _int_to_char derive), pad, leftpad, enumerate, canonical
    charset, pad, leftpad, enumerate, canonical,
    \* a caller of the codec: the strings it holds, the arguments of its fit call,
    \* the tensor and error count of transform, the strings of reverse_transform,
    \* its position
    smiles, fitArgs, one_hot, errors, decoded, cpc,
    \* SmilesIterator fields x and y, and one caller of its next(): the window
    \* it was handed, batch_x, its place in the item loop, the labels returned,
    \* its position
    x, y, bwin, batch_x, bitem, batch_y, bpc,
    \* a call of enumerate_smiles ("plain") or enumerate_smiles_hard_neg
    \* ("hard_neg"): its arguments, its position and loop index, the string
    \* transform encoded for each row, its locals transformed, is_enumerated,
    \* hard_negatives and hard_neg (the place drawn in the pool), the last
    \* rounded uniform draw in tenths, and the rows whose string was replaced
    dataset, replication_count, random_pairs, rand_proba, variant, apc, idx,
    toolkit_out, transformed, is_enumerated, hard_negatives, hard_neg, u, replaced

iterRest == <<n, batch_size, shuffle, seed, batch_index, total_batches_seen,
              index_array, hist, run, otherDraws>>
iterVars == <<iterRest, np_random>>
concVars == <<lock, pc, handed, item, pulls>>
codecVars == <<charset, pad, leftpad, enumerate, canonical, smiles, fitArgs, one_hot, errors,
               decoded, cpc>>
batchVars == <<x, y, bwin, batch_x, bitem, batch_y, bpc>>
augVars == <<dataset, replication_count, random_pairs, rand_proba, variant, apc, idx,
             toolkit_out, transformed, is_enumerated, hard_negatives, hard_neg, u,
             replaced>>
vars == <<iterVars, concVars, codecVars, batchVars, augVars>>

----------------------------------------------------------------------------
(* Bounds of the model *)
MaxN == 4
MaxSeed == 1
MaxPulls == 6
MaxPairPulls == 4
MaxConcPulls == 3
RngMod == 6
MaxOtherDraws == 1
MaxLen == 2
MaxPad == 2
MaxBatch == 2
MaxData == 2
MaxBatchPulls == 2
MaxPool == 2

(* np.random.seed(123) at import *)
ModuleSeed == 123

(* fit(..., extra_pad=5) *)
DefaultExtraPad == 5

(* SmilesEnumerator.__init__(charset="@C)(=cOn1S2/H[N]\\", pad=120, ...) *)
DefaultPad == 120

DefaultCharset ==
    <<"@", "C", ")", "(", "=", "c", "O", "n", "1", "S", "2", "/", "H", "[", "N", "]",
      "\\">>

Iters == {"A", "B"}
Threads == {"t1", "t2"}
NoSeed == <<>>

----------------------------------------------------------------------------
(* The process-wide random state *)

\* np.random.seed(s)
SeedState(s) == s % RngMod

\* one draw from the generator advances its state
RngNext(r) == (r + 1) % RngMod

Elements(s) == {s[k] : k \in 1..Len(s)}

RemoveAt(s, i) == SubSeq(s, 1, i - 1) \o SubSeq(s, i + 1, Len(s))

RECURSIVE KthPerm(_, _)
KthPerm(s, k) ==
    IF s = <<>> THEN <<>>
    ELSE LET i == (k % Len(s)) + 1
         IN  <<s[i]>> \o KthPerm(RemoveAt(s, i), k \div Len(s))

\* np.arange(m)
Arange(m) == [i \in 1..m |-> i - 1]

\* np.random.permutation(m) drawn in random state r
Permutation(m, r) == KthPerm(Arange(m), r)

----------------------------------------------------------------------------
(* Iterator._flow_index: one pass of the generator's loop body *)

\* the reseed never happening, as with seed=None
ReseedNever(r, total) == r

\* if seed is not None: np.random.seed(seed + self.total_batches_seen)
Reseed(r, total) ==
    IF seed = NoSeed THEN r ELSE SeedState(seed[1] + total)

\* if self.batch_index == 0: index_array = arange(n) or permutation(n)
NewIndexArray(bi, ia, r) ==
    IF bi = 0
    THEN IF shuffle THEN Permutation(n, r) ELSE Arange(n)
    ELSE ia

RngAfterIndexArray(bi, r) ==
    IF bi = 0 /\ shuffle THEN RngNext(r) ELSE r

CurrentIndex(bi) == (bi * batch_size) % n

\* the comparison off by one
HasFullBatchOffByOne(ci) == n >= ci + batch_size

\* if n > current_index + batch_size
HasFullBatch(ci) == n > ci + batch_size

CurrentBatchSize(ci) ==
    IF HasFullBatch(ci) THEN batch_size ELSE n - ci

NextBatchIndex(bi) ==
    IF HasFullBatch(CurrentIndex(bi)) THEN bi + 1 ELSE 0

\* numpy slice a[lo:hi] of a 1-based sequence holding a[0..]
Slice(a, lo, hi) ==
    LET h == IF hi > Len(a) THEN Len(a) ELSE hi
    IN  IF lo >= h THEN <<>> ELSE SubSeq(a, lo + 1, h)

Window(bi, ia) ==
    LET ci == CurrentIndex(bi)
        cbs == CurrentBatchSize(ci)
    IN  [index_array |-> Slice(ia, ci, ci + cbs),
         current_index |-> ci,
         current_batch_size |-> cbs]

\* The whole loop body, from the reseed to the yield, run without interruption
FlowIndex(bi, total, ia, r) ==
    LET r1 == Reseed(r, total)
        ia1 == NewIndexArray(bi, ia, r1)
    IN  [batch_index |-> NextBatchIndex(bi),
         total_batches_seen |-> total + 1,
         index_array |-> ia1,
         np_random |-> RngAfterIndexArray(bi, r1),
         window |-> Window(bi, ia1)]


----------------------------------------------------------------------------
(* SmilesEnumerator: the vocabulary *)

\* the characters of the strings handled
Alphabet == {"C", "O"}

Backslash == "\\"

\* _charlen = len(charset)
CharLen == Len(charset)

CharKnown(c) == \E k \in 1..Len(charset) : charset[k] = c

InVocabulary(ss) == \A k \in 1..Len(ss) : CharKnown(ss[k])

\* _char_to_int = {c: i for i, c in enumerate(charset)}: the last place of c wins
CharToInt(c) ==
    CHOOSE i \in 0..(CharLen - 1) :
        /\ charset[i + 1] = c
        /\ \A k \in (i + 1)..(CharLen - 1) : charset[k + 1] # c

\* _int_to_char = dict(enumerate(charset))
IntToChar(i) == charset[i + 1]

Chars(strs) == UNION {Elements(strs[k]) : k \in 1..Len(strs)}

MaxOf(S) == CHOOSE m \in S : \A v \in S : v <= m

\* "".join(a set): the set's members in an order the set decides
Orderings(S) ==
    {f \in [1..Cardinality(S) -> S] : \A a, b \in 1..Cardinality(S) : a # b => f[a] # f[b]}

\* fit: set("".join(list(smiles))).union(set(extra_chars)), joined
FitCharsets(strs, extra_chars) == Orderings(Chars(strs) \cup extra_chars)

\* the pad one short
FitPadShort(strs, extra_pad) ==
    MaxOf({Len(strs[k]) : k \in 1..Len(strs)}) + extra_pad - 1

\* fit: max(len(smile) for smile in smiles) + extra_pad
FitPad(strs, extra_pad) ==
    MaxOf({Len(strs[k]) : k \in 1..Len(strs)}) + extra_pad

----------------------------------------------------------------------------
(* The chemistry toolkit behind randomize_smiles: a molecule is the set of  *)
(* its serializations, and the toolkit returns one of them.                 *)

Molecules ==
    { {<<"C">>},
      {<<"C", "O">>, <<"O", "C">>},
      {<<"C", "C", "O">>, <<"O", "C", "C">>,
       <<"C", "(", "O", ")", "C">>, <<"C", "(", "C", ")", "O">>},
      {<<"C", "C", "C">>, <<"C", "(", "C", ")", "C">>} }

CanonicalForms == {<<"C">>, <<"C", "O">>, <<"C", "C", "O">>, <<"C", "C", "C">>}

Serializations(ss) == UNION {m \in Molecules : ss \in m}

\* randomize_smiles(ss): MolToSmiles of the renumbered molecule, canonical or not
RandomizeSmiles(ss) ==
    IF canonical
    THEN {c \in CanonicalForms : c \in Serializations(ss)}
    ELSE Serializations(ss)

\* if self.enumerate: ss = self.randomize_smiles(ss)
TransformInputs(ss) == IF enumerate THEN RandomizeSmiles(ss) ELSE {ss}

\* np.random.shuffle(ans) draws when there are two atoms or more
NumAtoms(ss) == Cardinality({k \in 1..Len(ss) : ss[k] \in {"C", "O"}})

RngAfterTransform(ss, r) ==
    IF enumerate /\ NumAtoms(ss) >= 2 THEN RngNext(r) ELSE r

----------------------------------------------------------------------------
(* SmilesEnumerator.transform and reverse_transform, one row.  A row of the *)
(* tensor is a function from the positions 0..pad-1 to the set of character *)
(* indices whose entry is 1.                                                *)

ZeroRow == [p \in 0..(pad - 1) |-> {}]

\* the column written for character j of a string of length l
Position(j, l) == IF leftpad THEN j + (pad - l) ELSE j

\* numpy accepts an index of -pad..pad-1 on an axis of size pad, and raises
\* IndexError for any other
IndexAccepted(p) == -pad <= p /\ p <= pad - 1

\* a negative index counts from the end
Wrapped(p) == IF p < 0 THEN p + pad ELSE p

\* for j, c in enumerate(ss): try: one_hot[i, pos, _char_to_int[c]] = 1
\* except Exception: errors += 1; break
RECURSIVE EncodeFrom(_, _, _)
EncodeFrom(row, ss, j) ==
    IF j >= Len(ss) THEN [row |-> row, errors |-> 0]
    ELSE LET c == ss[j + 1]
             p == Position(j, Len(ss))
         IN  IF ~CharKnown(c) \/ ~IndexAccepted(p)
             THEN [row |-> row, errors |-> 1]
             ELSE EncodeFrom([row EXCEPT ![Wrapped(p)] = @ \cup {CharToInt(c)}],
                             ss, j + 1)

EncodeRow(ss) == EncodeFrom(ZeroRow, ss, 0)

\* v[v.sum(axis=1) == 1]
Mask(row, p) == Cardinality(row[p]) = 1

\* "".join(self._int_to_char[i] for i in v.argmax(axis=1)) over the masked positions
RECURSIVE DecodeFrom(_, _)
DecodeFrom(row, p) ==
    IF p >= pad THEN <<>>
    ELSE (IF Mask(row, p)
          THEN <<IntToChar(CHOOSE k \in row[p] : \A m \in row[p] : k <= m)>>
          ELSE <<>>) \o DecodeFrom(row, p + 1)

DecodeRow(row) == DecodeFrom(row, 0)

RECURSIVE SumErrors(_)
SumErrors(rs) == IF rs = <<>> THEN 0 ELSE Head(rs).errors + SumErrors(Tail(rs))

----------------------------------------------------------------------------
(* Initial states *)

InitIterator ==
    /\ n \in 1..MaxN
    /\ batch_size \in 1..n
    /\ shuffle \in BOOLEAN
    /\ seed \in {NoSeed} \cup {<<s>> : s \in 0..MaxSeed}
    /\ batch_index = [i \in Iters |-> 0]
    /\ total_batches_seen = [i \in Iters |-> 0]
    /\ index_array = [i \in Iters |-> <<>>]
    /\ np_random = SeedState(ModuleSeed)
    /\ hist = [i \in Iters |-> <<>>]
    /\ run = [i \in Iters |-> <<>>]
    /\ otherDraws = 0

IdleConc ==
    /\ lock = "free"
    /\ pc = [t \in Threads |-> "idle"]
    /\ handed = [t \in Threads |-> <<>>]
    /\ item = [t \in Threads |-> 0]
    /\ pulls = <<>>

----------------------------------------------------------------------------
(* The operations of an iterator used by one caller *)

HistEntry(i, f) ==
    [window |-> f.window, total |-> total_batches_seen[i], perm |-> f.index_array]

\* next(self.index_generator)
Pull(i) ==
    LET f == FlowIndex(batch_index[i], total_batches_seen[i], index_array[i], np_random)
    IN  /\ batch_index' = [batch_index EXCEPT ![i] = f.batch_index]
        /\ total_batches_seen' = [total_batches_seen EXCEPT ![i] = f.total_batches_seen]
        /\ index_array' = [index_array EXCEPT ![i] = f.index_array]
        /\ np_random' = f.np_random
        /\ hist' = [hist EXCEPT ![i] = Append(@, HistEntry(i, f))]
        /\ run' = [run EXCEPT ![i] = IF batch_index[i] = 0 THEN <<f.window>>
                                      ELSE Append(@, f.window)]
        /\ UNCHANGED <<n, batch_size, shuffle, seed, otherDraws, concVars, codecVars, batchVars, augVars>>

\* Iterator.reset
Reset(i) ==
    /\ batch_index[i] # 0
    /\ batch_index' = [batch_index EXCEPT ![i] = 0]
    /\ run' = [run EXCEPT ![i] = <<>>]
    /\ UNCHANGED <<n, batch_size, shuffle, seed, total_batches_seen, index_array,
                   np_random, hist, otherDraws, concVars, codecVars, batchVars, augVars>>

\* any other user of np.random between two pulls (np.random.shuffle, choice, ...)
OtherRandomWork ==
    /\ otherDraws < MaxOtherDraws
    /\ np_random' = RngNext(np_random)
    /\ otherDraws' = otherDraws + 1
    /\ UNCHANGED <<n, batch_size, shuffle, seed, batch_index, total_batches_seen,
                   index_array, hist, run, concVars, codecVars, batchVars, augVars>>

IdleCodec ==
    /\ charset = <<>>
    /\ pad = 0
    /\ leftpad = TRUE
    /\ enumerate = TRUE
    /\ canonical = FALSE
    /\ smiles = <<>>
    /\ fitArgs = <<>>
    /\ one_hot = <<>>
    /\ errors = 0
    /\ decoded = <<>>
    /\ cpc = "idle"

NoLabels == <<>>

IdleBatch ==
    /\ x = <<>>
    /\ y = NoLabels
    /\ bwin = <<>>
    /\ batch_x = <<>>
    /\ bitem = 0
    /\ batch_y = NoLabels
    /\ bpc = "idle"

IdleAug ==
    /\ dataset = <<>>
    /\ replication_count = 0
    /\ random_pairs = FALSE
    /\ rand_proba = 0
    /\ variant = "none"
    /\ apc = "idle"
    /\ idx = 0
    /\ toolkit_out = <<>>
    /\ transformed = <<>>
    /\ is_enumerated = <<>>
    /\ hard_negatives = <<>>
    /\ hard_neg = 0
    /\ u = 0
    /\ replaced = {}

InitIter == InitIterator /\ IdleConc /\ IdleCodec /\ IdleBatch /\ IdleAug

(* SpecIter: one iterator, pulled and reset by one caller *)
NextIter ==
    \/ Len(hist["A"]) < MaxPulls /\ Pull("A")
    \/ Reset("A")

SpecIter == InitIter /\ [][NextIter]_vars

(* SpecPair: two independent iterators built with the same arguments, each *)
(* pulled from fresh, and other work drawing from the process-wide random  *)
(* state between their pulls                                               *)
NextPair ==
    \/ \E i \in Iters : Len(hist[i]) < MaxPairPulls /\ Pull(i)
    \/ OtherRandomWork

SpecPair == InitIter /\ [][NextPair]_vars

----------------------------------------------------------------------------
(* Properties of the epoch iterator *)

Ceil(a, b) == (a + b - 1) \div b

Min(a, b) == IF a < b THEN a ELSE b

RECURSIVE FlattenWindows(_)
FlattenWindows(ws) ==
    IF ws = <<>> THEN <<>>
    ELSE Head(ws).index_array \o FlattenWindows(Tail(ws))

NoDuplicates(s) == \A a, b \in 1..Len(s) : a # b => s[a] # s[b]

EpochLength == Ceil(n, batch_size)

LastWindowSize == IF n % batch_size = 0 THEN batch_size ELSE n % batch_size

\* C1: the windows of one epoch (from a fresh or reset iterator, or from the end
\* of the previous epoch) are consecutive slices that hold every index of 0..n-1
\* exactly once; there are ceil(n/batch_size) of them, their sizes sum to n, the
\* last has size n mod batch_size (batch_size when that is 0), the cursor is 0
\* exactly when the epoch is complete, and without shuffle window k is the
\* ascending slice [(k-1)b : kb].
C1_EpochPartition ==
    \A i \in Iters :
        run[i] # <<>> =>
            LET r == run[i]
                all == FlattenWindows(r)
            IN  /\ Len(r) <= EpochLength
                /\ \A k \in 1..Len(r) :
                      /\ r[k].current_index = (k - 1) * batch_size
                      /\ r[k].current_batch_size = Len(r[k].index_array)
                      /\ k < EpochLength => r[k].current_batch_size = batch_size
                      /\ ~shuffle =>
                            r[k].index_array =
                                [j \in 1..r[k].current_batch_size |->
                                    (k - 1) * batch_size + j - 1]
                /\ NoDuplicates(all)
                /\ Elements(all) \subseteq 0..(n - 1)
                /\ (Len(r) = EpochLength) <=> (batch_index[i] = 0)
                /\ Len(r) = EpochLength =>
                      /\ Len(all) = n
                      /\ Elements(all) = 0..(n - 1)
                      /\ r[Len(r)].current_batch_size = LastWindowSize

\* a shuffled iterator has finished its second epoch, whose last window is short
C1_Witness ==
    \E i \in Iters :
        /\ shuffle
        /\ n % batch_size # 0
        /\ batch_index[i] = 0
        /\ Len(run[i]) = EpochLength
        /\ Len(hist[i]) = 2 * EpochLength
        /\ FlattenWindows(run[i]) # Arange(n)

\* the pull that started the epoch which pull k of iterator i belongs to
EpochStartOf(i, k) ==
    CHOOSE j \in 1..k :
        /\ hist[i][j].window.current_index = 0
        /\ \A m \in (j + 1)..k : hist[i][m].window.current_index # 0

\* C2: with a seed and shuffle on, two iterators with the same arguments, each
\* pulled from fresh, yield the same window at every pull position, whatever
\* was drawn from the process-wide random state between pulls; and the
\* permutation of an epoch is the one drawn in state seed + total_batches_seen
\* of the pull that starts the epoch.
C2_SeededReproducible ==
    (seed # NoSeed /\ shuffle) =>
        /\ \A k \in 1..Min(Len(hist["A"]), Len(hist["B"])) :
              hist["A"][k].window = hist["B"][k].window
        /\ \A i \in Iters : \A k \in 1..Len(hist[i]) :
              hist[i][k].perm =
                  Permutation(n, SeedState(seed[1] + hist[i][EpochStartOf(i, k)].total))

\* both iterators stopped in the middle of their second epoch, which uses another
\* permutation than the first, with other draws made in between
C2_Witness ==
    /\ seed # NoSeed /\ shuffle
    /\ otherDraws > 0
    /\ \A i \in Iters :
          /\ Len(hist[i]) > EpochLength
          /\ batch_index[i] # 0
          /\ hist[i][1].perm # hist[i][Len(hist[i])].perm

----------------------------------------------------------------------------
(* SpecConc: several callers in SmilesIterator.next on one shared iterator. *)
(* The generator's loop body runs under self.lock, one statement at a time; *)
(* the item loop that follows runs outside it, and with self.enumerate each *)
(* item's transform calls randomize_smiles, whose np.random.shuffle draws   *)
(* from the process-wide random state.                                      *)

It == "A"

\* with self.lock:
Acquire(t) ==
    /\ pc[t] = "idle"
    /\ lock = "free"
    /\ total_batches_seen[It] < MaxConcPulls
    /\ lock' = t
    /\ pc' = [pc EXCEPT ![t] = "seed"]
    /\ UNCHANGED <<iterVars, handed, item, pulls, codecVars, batchVars, augVars>>

\* if seed is not None: np.random.seed(seed + self.total_batches_seen)
SeedStep(t) ==
    /\ pc[t] = "seed"
    /\ np_random' = Reseed(np_random, total_batches_seen[It])
    /\ pc' = [pc EXCEPT ![t] = "perm"]
    /\ UNCHANGED <<n, batch_size, shuffle, seed, batch_index, total_batches_seen,
                   index_array, hist, run, otherDraws, lock, handed, item, pulls,
                   codecVars, batchVars, augVars>>

\* if self.batch_index == 0: index_array = ...
PermStep(t) ==
    /\ pc[t] = "perm"
    /\ index_array' = [index_array EXCEPT
                          ![It] = NewIndexArray(batch_index[It], @, np_random)]
    /\ np_random' = RngAfterIndexArray(batch_index[It], np_random)
    /\ pc' = [pc EXCEPT ![t] = "yield"]
    /\ UNCHANGED <<n, batch_size, shuffle, seed, batch_index, total_batches_seen,
                   hist, run, otherDraws, lock, handed, item, pulls, codecVars, batchVars, augVars>>

\* the cursor's advance, the yield, and the end of the with block
YieldStep(t) ==
    /\ pc[t] = "yield"
    /\ LET w == Window(batch_index[It], index_array[It])
       IN  /\ handed' = [handed EXCEPT ![t] = w.index_array]
           /\ pulls' = Append(pulls, [window |-> w, total |-> total_batches_seen[It]])
    /\ batch_index' = [batch_index EXCEPT ![It] = NextBatchIndex(@)]
    /\ total_batches_seen' = [total_batches_seen EXCEPT ![It] = @ + 1]
    /\ lock' = "free"
    /\ item' = [item EXCEPT ![t] = 0]
    /\ pc' = [pc EXCEPT ![t] = "encode"]
    /\ UNCHANGED <<n, batch_size, shuffle, seed, index_array, np_random, hist, run,
                   otherDraws, codecVars, batchVars, augVars>>

\* one pass of for i, j in enumerate(index_array): transform(self.x[j:j+1])
EncodeItem(t) ==
    /\ pc[t] = "encode"
    /\ item[t] < Len(handed[t])
    /\ item' = [item EXCEPT ![t] = @ + 1]
    /\ np_random' = IF enumerate THEN RngNext(np_random) ELSE np_random
    /\ UNCHANGED <<n, batch_size, shuffle, seed, batch_index, total_batches_seen,
                   index_array, hist, run, otherDraws, lock, pc, handed, pulls,
                   codecVars, batchVars, augVars>>

\* return batch_x
Return(t) ==
    /\ pc[t] = "encode"
    /\ item[t] = Len(handed[t])
    /\ pc' = [pc EXCEPT ![t] = "idle"]
    /\ UNCHANGED <<iterVars, lock, handed, item, pulls, codecVars, batchVars, augVars>>

InitConc ==
    /\ InitIterator
    /\ IdleConc
    /\ enumerate \in BOOLEAN
    /\ charset = <<>> /\ pad = 0 /\ leftpad = TRUE /\ canonical = FALSE
    /\ smiles = <<>> /\ fitArgs = <<>> /\ one_hot = <<>> /\ errors = 0
    /\ decoded = <<>> /\ cpc = "idle"
    /\ IdleBatch
    /\ IdleAug

NextConc ==
    \E t \in Threads :
        \/ Acquire(t)
        \/ SeedStep(t)
        \/ PermStep(t)
        \/ YieldStep(t)
        \/ EncodeItem(t)
        \/ Return(t)

SpecConc == InitConc /\ [][NextConc]_vars

\* the k-th pull of one caller alone, from a fresh iterator
RECURSIVE SingleThreaded(_)
SingleThreaded(k) ==
    IF k = 0
    THEN [batch_index |-> 0, total_batches_seen |-> 0, index_array |-> <<>>,
          np_random |-> SeedState(ModuleSeed), window |-> <<>>]
    ELSE LET p == SingleThreaded(k - 1)
         IN  FlowIndex(p.batch_index, p.total_batches_seen, p.index_array, p.np_random)

\* C3: with a seed and shuffle on, in every interleaving of the callers' steps
\* the k-th pull observes total_batches_seen = k-1 (one more per pull, no value
\* seen twice) and hands out the window of the k-th pull of a single caller.
C3_ConcurrentDeterministic ==
    (seed # NoSeed /\ shuffle) =>
        \A k \in 1..Len(pulls) :
            /\ pulls[k].total = k - 1
            /\ pulls[k].window = SingleThreaded(k).window

----------------------------------------------------------------------------
(* SpecCodec: a caller holding a batch of strings and a codec built from    *)
(* constructor arguments; it may fit the codec on the batch, then encodes   *)
(* the batch with enumeration off and decodes the tensor.                   *)

RECURSIVE StringsUpTo(_)
StringsUpTo(l) ==
    IF l = 0 THEN {<<>>}
    ELSE StringsUpTo(l - 1) \cup
         {Append(s, c) : s \in {t \in StringsUpTo(l - 1) : Len(t) = l - 1}, c \in Alphabet}

Batches == UNION {[1..k -> StringsUpTo(MaxLen)] : k \in 1..MaxBatch}

\* charsets given to the constructor: one character only, and both with one
\* of them twice (fit supplies the charsets without repeats)
GivenCharsets == {<<"C">>, <<"C", "O", "C">>}

ExtraPads == {-1, 0, DefaultExtraPad}

InitCodec ==
    /\ charset \in GivenCharsets
    /\ pad \in 0..MaxPad
    /\ leftpad \in BOOLEAN
    /\ enumerate = FALSE
    /\ canonical = FALSE
    /\ smiles \in Batches
    /\ fitArgs = <<>>
    /\ one_hot = <<>>
    /\ errors = 0
    /\ decoded = <<>>
    /\ cpc = "new"

\* SmilesEnumerator.fit(smiles, extra_chars, extra_pad)
Fit(extra_chars, extra_pad) ==
    /\ cpc = "new"
    /\ fitArgs = <<>>
    /\ charset' \in FitCharsets(smiles, extra_chars)
    /\ pad' = FitPad(smiles, extra_pad)
    /\ fitArgs' = <<[extra_chars |-> extra_chars, extra_pad |-> extra_pad]>>
    /\ UNCHANGED <<leftpad, enumerate, canonical, smiles, one_hot, errors, decoded, cpc>>

\* SmilesEnumerator.transform(smiles), enumeration off; np.zeros wants pad >= 0
Transform ==
    /\ cpc = "new"
    /\ ~enumerate
    /\ pad >= 0
    /\ LET rs == [i \in 1..Len(smiles) |-> EncodeRow(smiles[i])]
       IN  /\ one_hot' = [i \in 1..Len(smiles) |-> rs[i].row]
           /\ errors' = SumErrors(rs)
    /\ cpc' = "transformed"
    /\ UNCHANGED <<charset, pad, leftpad, enumerate, canonical, smiles, fitArgs, decoded>>

\* SmilesEnumerator.reverse_transform(vect)
ReverseTransform ==
    /\ cpc = "transformed"
    /\ decoded' = [i \in 1..Len(one_hot) |-> DecodeRow(one_hot[i])]
    /\ cpc' = "decoded"
    /\ UNCHANGED <<charset, pad, leftpad, enumerate, canonical, smiles, fitArgs, one_hot,
                   errors>>

NextCodec ==
    \/ \E ec \in SUBSET {Backslash}, ep \in ExtraPads :
          Fit(ec, ep) /\ UNCHANGED <<iterVars, concVars, batchVars, augVars>>
    \/ Transform /\ UNCHANGED <<iterVars, concVars, batchVars, augVars>>
    \/ ReverseTransform /\ UNCHANGED <<iterVars, concVars, batchVars, augVars>>

IdleIterator ==
    /\ n = 1 /\ batch_size = 1 /\ shuffle = FALSE /\ seed = NoSeed
    /\ batch_index = [i \in Iters |-> 0]
    /\ total_batches_seen = [i \in Iters |-> 0]
    /\ index_array = [i \in Iters |-> <<>>]
    /\ np_random = SeedState(ModuleSeed)
    /\ hist = [i \in Iters |-> <<>>]
    /\ run = [i \in Iters |-> <<>>]
    /\ otherDraws = 0

InitSpecCodec == InitCodec /\ IdleIterator /\ IdleConc /\ IdleBatch /\ IdleAug

SpecCodec == InitSpecCodec /\ [][NextCodec]_vars

----------------------------------------------------------------------------
(* SpecBatch: one caller of SmilesIterator.next on an iterator over the     *)
(* strings x and the labels y (or none), with a codec given at construction *)

DataStrings == {<<"C">>, <<"O", "C">>, <<"C", "C", "O">>}

Datasets == UNION {[1..k -> DataStrings] : k \in 1..MaxData}

Label(j) == -j

BatchCharsets == {<<"C", "O", "(", ")">>, <<"O", "C">>}

BatchPads == {2, 5}

InitBatch ==
    /\ x \in Datasets
    /\ y \in {NoLabels, [j \in 1..Len(x) |-> Label(j)]}
    /\ n = Len(x)
    /\ batch_size \in 1..n
    /\ shuffle \in BOOLEAN
    /\ seed \in {NoSeed, <<0>>}
    /\ batch_index = [i \in Iters |-> 0]
    /\ total_batches_seen = [i \in Iters |-> 0]
    /\ index_array = [i \in Iters |-> <<>>]
    /\ np_random = SeedState(ModuleSeed)
    /\ hist = [i \in Iters |-> <<>>]
    /\ run = [i \in Iters |-> <<>>]
    /\ otherDraws = 0
    /\ charset \in BatchCharsets
    /\ pad \in BatchPads
    /\ leftpad \in BOOLEAN
    /\ enumerate \in BOOLEAN
    /\ canonical = FALSE
    /\ smiles = <<>> /\ fitArgs = <<>> /\ one_hot = <<>> /\ errors = 0
    /\ decoded = <<>> /\ cpc = "idle"
    /\ bwin = <<>>
    /\ batch_x = <<>>
    /\ bitem = 0
    /\ batch_y = NoLabels
    /\ bpc = "ready"

\* the labels of the window's place in the dataset, not of its indices
LabelsAtOffset(w) ==
    [i \in 1..Len(w.index_array) |-> y[w.current_index + i]]

\* self.y[index_array]
LabelsOf(w) ==
    [i \in 1..Len(w.index_array) |-> y[w.index_array[i] + 1]]

\* with self.lock: next(self.index_generator); batch_x = np.zeros(...)
BatchPull ==
    /\ bpc \in {"ready", "returned"}
    /\ total_batches_seen[It] < MaxBatchPulls
    /\ LET f == FlowIndex(batch_index[It], total_batches_seen[It], index_array[It],
                          np_random)
       IN  /\ batch_index' = [batch_index EXCEPT ![It] = f.batch_index]
           /\ total_batches_seen' = [total_batches_seen EXCEPT
                                        ![It] = f.total_batches_seen]
           /\ index_array' = [index_array EXCEPT ![It] = f.index_array]
           /\ np_random' = f.np_random
           /\ bwin' = f.window
           /\ batch_x' = [i \in 1..f.window.current_batch_size |-> ZeroRow]
    /\ bitem' = 0
    /\ batch_y' = NoLabels
    /\ bpc' = "items"
    /\ UNCHANGED <<n, batch_size, shuffle, seed, hist, run, otherDraws, concVars,
                   codecVars, x, y, augVars>>

\* for i, j in enumerate(index_array): batch_x[i] = transform(self.x[j:j+1])
BatchItem ==
    /\ bpc = "items"
    /\ bitem < Len(bwin.index_array)
    /\ LET j == bwin.index_array[bitem + 1]
       IN  /\ \E ss \in TransformInputs(x[j + 1]) :
                 batch_x' = [batch_x EXCEPT ![bitem + 1] = EncodeRow(ss).row]
           /\ np_random' = RngAfterTransform(x[j + 1], np_random)
    /\ bitem' = bitem + 1
    /\ UNCHANGED <<n, batch_size, shuffle, seed, batch_index, total_batches_seen,
                   index_array, hist, run, otherDraws, concVars, codecVars,
                   x, y, bwin, batch_y, bpc, augVars>>

\* return batch_x if self.y is None else (batch_x, self.y[index_array])
BatchReturn ==
    /\ bpc = "items"
    /\ bitem = Len(bwin.index_array)
    /\ batch_y' = IF y = NoLabels THEN NoLabels ELSE LabelsOf(bwin)
    /\ bpc' = "returned"
    /\ UNCHANGED <<iterVars, concVars, codecVars, x, y, bwin, batch_x, bitem, augVars>>

NextBatch == BatchPull \/ BatchItem \/ BatchReturn

InitSpecBatch == InitBatch /\ IdleConc /\ IdleAug

SpecBatch == InitSpecBatch /\ [][NextBatch]_vars

\* C6: at every return of next(), row i of the tensor is the encoding of the
\* string the codec was given for x[w[i]] (x[w[i]] itself, or with enumeration on
\* one of its serializations), label i is y[w[i]], and the tensor has
\* len(w) rows of pad columns over the vocabulary's indices.
C6_BatchAligned ==
    bpc = "returned" =>
        /\ Len(batch_x) = Len(bwin.index_array)
        /\ Len(batch_x) = bwin.current_batch_size
        /\ \A i \in 1..Len(batch_x) :
              /\ DOMAIN batch_x[i] = 0..(pad - 1)
              /\ \A p \in 0..(pad - 1) : batch_x[i][p] \subseteq 0..(CharLen - 1)
              /\ \E ss \in TransformInputs(x[bwin.index_array[i] + 1]) :
                    batch_x[i] = EncodeRow(ss).row
              /\ (enumerate \/ ~InVocabulary(x[bwin.index_array[i] + 1])
                    \/ Len(x[bwin.index_array[i] + 1]) > pad)
                 \/ DecodeRow(batch_x[i]) = x[bwin.index_array[i] + 1]
        /\ y # NoLabels =>
              /\ Len(batch_y) = Len(bwin.index_array)
              /\ \A i \in 1..Len(batch_y) : batch_y[i] = Label(bwin.index_array[i] + 1)

\* a shuffled window that is not in dataset order was returned with labels,
\* over two different strings
C6_Witness ==
    /\ bpc = "returned"
    /\ shuffle /\ y # NoLabels
    /\ Len(bwin.index_array) = 2
    /\ bwin.index_array[1] > bwin.index_array[2]
    /\ x[1] # x[2]
    /\ batch_x[1] # batch_x[2]

----------------------------------------------------------------------------
(* SmilesEnumerator.enumerate_smiles and enumerate_smiles_hard_neg          *)

\* np.repeat(column, k): every element k times in a row
Repeat(ds, k) == [i \in 1..(Len(ds) * k) |-> ds[((i - 1) \div k) + 1]]

\* np.array(list of str) has dtype <U w, w the longest string's length (1 at least)
ItemSize(strs) ==
    LET m == MaxOf({Len(strs[k]) : k \in 1..Len(strs)} \cup {1}) IN m

\* storing a string in an array of dtype <U w keeps its first w characters
Stored(s, w) == SubSeq(s, 1, Min(Len(s), w))

\* hard_negatives = [-1] * len(smiles): the integer -1, which is no string
Placeholder == <<"-1">>

\* round(np.random.uniform(), 1), in tenths
Draws == 0..10

\* the row kept also when the draw equals rand_proba
ContinuesOrEqual(draw) == draw >= rand_proba

\* if round(np.random.uniform(), 1) > rand_proba: continue
Continues(draw) == draw > rand_proba

\* the loop never entered
NeverResample(h, smile) == FALSE

\* while hard_neg == smile
Resample(h, smile) == h = smile

AugStrings == {<<"C">>, <<"C", "C", "C">>}

RandProbas == {0, 3, 10}

InitAugCall(v) ==
    /\ variant = v
    /\ dataset \in UNION {[1..k -> AugStrings] : k \in 1..MaxPool}
    /\ replication_count \in {k \in 0..MaxPool : Len(dataset) * k <= MaxPool}
    /\ random_pairs \in BOOLEAN
    /\ rand_proba \in RandProbas
    /\ apc = "start"
    /\ idx = 0
    /\ toolkit_out = <<>>
    /\ transformed = <<>>
    /\ is_enumerated = <<>>
    /\ hard_negatives = <<>>
    /\ hard_neg = 0
    /\ u = 0
    /\ replaced = {}
    \* the SmilesEnumerator the method is called on
    /\ charset = DefaultCharset
    /\ pad = DefaultPad
    /\ leftpad \in BOOLEAN
    /\ enumerate \in BOOLEAN
    /\ canonical = FALSE
    /\ smiles = <<>> /\ fitArgs = <<>> /\ one_hot = <<>> /\ errors = 0
    /\ decoded = <<>> /\ cpc = "idle"

\* smiles = np.repeat(...); self.fit(smiles, extra_chars=["\\"]); fit's max()
\* raises ValueError on an empty sequence
AugStart ==
    /\ apc = "start"
    /\ LET pool == Repeat(dataset, replication_count)
       IN  /\ smiles' = pool
           /\ IF pool = <<>>
              THEN /\ charset' \in FitCharsets(pool, {Backslash})
                   /\ apc' = "raised"
                   /\ UNCHANGED <<pad, fitArgs>>
              ELSE /\ charset' \in FitCharsets(pool, {Backslash})
                   /\ pad' = FitPad(pool, DefaultExtraPad)
                   /\ fitArgs' = <<[extra_chars |-> {Backslash},
                                    extra_pad |-> DefaultExtraPad]>>
                   /\ apc' = "transform"
    /\ UNCHANGED <<leftpad, enumerate, canonical, one_hot, errors, decoded, cpc,
                   dataset, replication_count, random_pairs, rand_proba, variant, idx,
                   toolkit_out, transformed, is_enumerated, hard_negatives, hard_neg,
                   u, replaced, np_random>>

\* v = self.transform(smiles): one pass of its loop over the rows
AugTransformRow ==
    /\ apc = "transform"
    /\ idx < Len(smiles)
    /\ \E ss \in TransformInputs(smiles[idx + 1]) :
          /\ one_hot' = Append(one_hot, EncodeRow(ss).row)
          /\ errors' = errors + EncodeRow(ss).errors
          /\ toolkit_out' = Append(toolkit_out, ss)
    /\ np_random' = RngAfterTransform(smiles[idx + 1], np_random)
    /\ idx' = idx + 1
    /\ UNCHANGED <<charset, pad, leftpad, enumerate, canonical, smiles, fitArgs,
                   decoded, cpc, dataset, replication_count, random_pairs, rand_proba,
                   variant, apc, transformed, is_enumerated, hard_negatives, hard_neg,
                   u, replaced>>

\* transformed = self.reverse_transform(v); is_enumerated = [1] * len(smiles);
\* hard_negatives = [-1] * len(smiles); if random_pairs: ...
AugDecode ==
    /\ apc = "transform"
    /\ idx = Len(smiles)
    /\ decoded' = [i \in 1..Len(one_hot) |-> DecodeRow(one_hot[i])]
    /\ transformed' = decoded'
    /\ is_enumerated' = IF variant = "plain" THEN [i \in 1..Len(smiles) |-> 1] ELSE <<>>
    /\ hard_negatives' =
          IF variant = "hard_neg" THEN [i \in 1..Len(smiles) |-> Placeholder] ELSE <<>>
    /\ idx' = 0
    /\ apc' = IF ~random_pairs THEN "return"
              ELSE IF variant = "plain" THEN "pairs" ELSE "hn_pick"
    /\ UNCHANGED <<charset, pad, leftpad, enumerate, canonical, smiles, fitArgs, one_hot,
                   errors, cpc, dataset, replication_count, random_pairs, rand_proba,
                   variant, toolkit_out, hard_neg, u, replaced, np_random>>

\* enumerate_smiles: one pass of for idx, _ in enumerate(tqdm(smiles))
PairRow ==
    /\ apc = "pairs"
    /\ idx < Len(smiles)
    /\ \E draw \in Draws :
          /\ u' = draw
          /\ IF Continues(draw)
             THEN /\ np_random' = RngNext(np_random)
                  /\ UNCHANGED <<transformed, is_enumerated, replaced>>
             ELSE \E k \in 1..Len(smiles) :
                     /\ np_random' = RngNext(RngNext(np_random))
                     /\ transformed' = [transformed EXCEPT
                           ![idx + 1] = Stored(smiles[k], ItemSize(decoded))]
                     /\ is_enumerated' = [is_enumerated EXCEPT ![idx + 1] = 0]
                     /\ replaced' = replaced \cup {idx + 1}
    /\ idx' = idx + 1
    /\ UNCHANGED <<codecVars, dataset, replication_count, random_pairs, rand_proba,
                   variant, apc, toolkit_out, hard_negatives, hard_neg>>

\* enumerate_smiles_hard_neg: hard_neg = np.random.choice(smiles)
HardNegPick ==
    /\ apc = "hn_pick"
    /\ idx < Len(smiles)
    /\ hard_neg' \in 1..Len(smiles)
    /\ np_random' = RngNext(np_random)
    /\ apc' = "hn_while"
    /\ UNCHANGED <<codecVars, dataset, replication_count, random_pairs, rand_proba,
                   variant, idx, toolkit_out, transformed, is_enumerated,
                   hard_negatives, u, replaced>>

\* while hard_neg == smile: hard_neg = np.random.choice(smiles), drawing place k
HardNegAgain(k) ==
    /\ apc = "hn_while"
    /\ Resample(smiles[hard_neg], smiles[idx + 1])
    /\ hard_neg' = k
    /\ np_random' = RngNext(np_random)
    /\ UNCHANGED <<codecVars, dataset, replication_count, random_pairs, rand_proba,
                   variant, apc, idx, toolkit_out, transformed, is_enumerated,
                   hard_negatives, u, replaced>>

\* hard_negatives[idx] = hard_neg
HardNegStore ==
    /\ apc = "hn_while"
    /\ ~Resample(smiles[hard_neg], smiles[idx + 1])
    /\ hard_negatives' = [hard_negatives EXCEPT ![idx + 1] = smiles[hard_neg]]
    /\ idx' = idx + 1
    /\ hard_neg' = 0
    /\ apc' = "hn_pick"
    /\ UNCHANGED <<codecVars, dataset, replication_count, random_pairs, rand_proba,
                   variant, toolkit_out, transformed, is_enumerated, u, replaced,
                   np_random>>

\* the end of the loop over the rows
AugLoopEnd ==
    /\ apc \in {"pairs", "hn_pick"}
    /\ idx = Len(smiles)
    /\ apc' = "return"
    /\ UNCHANGED <<codecVars, dataset, replication_count, random_pairs, rand_proba,
                   variant, idx, toolkit_out, transformed, is_enumerated,
                   hard_negatives, hard_neg, u, replaced, np_random>>

\* return transformed, list(smiles), is_enumerated / return pd.DataFrame({...})
AugReturn ==
    /\ apc = "return"
    /\ apc' = "done"
    /\ UNCHANGED <<codecVars, dataset, replication_count, random_pairs, rand_proba,
                   variant, idx, toolkit_out, transformed, is_enumerated,
                   hard_negatives, hard_neg, u, replaced, np_random>>

Others == <<iterRest, concVars, batchVars>>

(* SpecAug: one call of enumerate_smiles *)
NextAug ==
    \/ AugStart /\ UNCHANGED Others
    \/ AugTransformRow /\ UNCHANGED Others
    \/ AugDecode /\ UNCHANGED Others
    \/ PairRow /\ UNCHANGED Others
    \/ AugLoopEnd /\ UNCHANGED Others
    \/ AugReturn /\ UNCHANGED Others

InitSpecAug == InitAugCall("plain") /\ IdleIterator /\ IdleConc /\ IdleBatch

SpecAug == InitSpecAug /\ [][NextAug]_vars

(* SpecHardNeg: one call of enumerate_smiles_hard_neg *)
NextHardNeg ==
    \/ AugStart /\ UNCHANGED Others
    \/ AugTransformRow /\ UNCHANGED Others
    \/ AugDecode /\ UNCHANGED Others
    \/ HardNegPick /\ UNCHANGED Others
    \/ \E k \in 1..Len(smiles) : HardNegAgain(k) /\ UNCHANGED Others
    \/ HardNegStore /\ UNCHANGED Others
    \/ AugLoopEnd /\ UNCHANGED Others
    \/ AugReturn /\ UNCHANGED Others

InitSpecHardNeg == InitAugCall("hard_neg") /\ IdleIterator /\ IdleConc /\ IdleBatch

SpecHardNeg == InitSpecHardNeg /\ [][NextHardNeg]_vars

\* a draw of the resampling loop that ends the loop
HardNegExit ==
    \E k \in 1..Len(smiles) :
        /\ HardNegAgain(k)
        /\ ~Resample(smiles[k], smiles[idx + 1])
        /\ UNCHANGED Others

(* SpecHardNegFair: the call keeps running, and a draw that is possible again *)
(* and again is eventually made                                             *)
SpecHardNegFair ==
    SpecHardNeg /\ WF_vars(NextHardNeg) /\ SF_vars(HardNegExit)

----------------------------------------------------------------------------
(* Properties of the codec *)

\* the characters of ss that cannot be encoded: not in the vocabulary, or placed
\* outside the columns 0..pad-1
Failing(ss) ==
    {j \in 0..(Len(ss) - 1) :
        \/ ~CharKnown(ss[j + 1])
        \/ Position(j, Len(ss)) \notin 0..(pad - 1)}

FailPos(ss) ==
    IF Failing(ss) = {} THEN Len(ss)
    ELSE CHOOSE j \in Failing(ss) : \A k \in Failing(ss) : j <= k

\* the row holding the characters before the failing one, each in its own column
RowUpTo(ss, f) ==
    [p \in 0..(pad - 1) |->
        {CharToInt(ss[j + 1]) : j \in {k \in 0..(f - 1) : Position(k, Len(ss)) = p}}]

\* C4: after transform with enumeration off, left or right padded, a row with a
\* character outside the vocabulary or a string longer than pad holds exactly
\* the characters before the failing one, in their normal columns, and counts
\* as one error; every other row is encoded in full.
C4_EncodeStopsAtFailure ==
    cpc \in {"transformed", "decoded"} =>
        /\ \A i \in 1..Len(smiles) :
              one_hot[i] = RowUpTo(smiles[i], FailPos(smiles[i]))
        /\ errors = Cardinality({i \in 1..Len(smiles) : Failing(smiles[i]) # {}})

\* C5: with enumeration off, left or right padded, a string of vocabulary
\* characters no longer than pad decodes to itself; and after fit with
\* extra_pad >= 0 every fitted string is such a string: the vocabulary is the
\* strings' characters and the extra ones, the character <-> index mapping is a
\* bijection, and pad = max(len) + extra_pad.
C5_RoundTrip ==
    /\ cpc = "decoded" =>
          \A i \in 1..Len(smiles) :
              (InVocabulary(smiles[i]) /\ Len(smiles[i]) <= pad) =>
                  decoded[i] = smiles[i]
    /\ (fitArgs # <<>> /\ fitArgs[1].extra_pad >= 0) =>
          /\ Elements(charset) = Chars(smiles) \cup fitArgs[1].extra_chars
          /\ \A k \in 0..(CharLen - 1) : CharToInt(IntToChar(k)) = k
          /\ \A c \in Elements(charset) : IntToChar(CharToInt(c)) = c
          /\ pad = MaxOf({Len(smiles[i]) : i \in 1..Len(smiles)}) + fitArgs[1].extra_pad
          /\ \A i \in 1..Len(smiles) : InVocabulary(smiles[i]) /\ Len(smiles[i]) <= pad
          /\ cpc = "decoded" => decoded = smiles

\* two different fitted strings, one shorter than pad and holding both
\* characters, came back from encode and decode
C5_Witness ==
    /\ cpc = "decoded"
    /\ fitArgs # <<>> /\ fitArgs[1].extra_pad >= 0
    /\ Len(smiles) = 2
    /\ smiles[1] = <<"O", "C">> /\ smiles[2] = <<"C">>
    /\ decoded = smiles

----------------------------------------------------------------------------
(* Properties of the augmentation generators *)

\* C7 as claimed: whatever random_pairs is, at the return of
\* enumerate_smiles_hard_neg every row's hard_neg is a string of the replicated
\* pool other than the row's sent1, and sent1, sent0 and hard_neg each have
\* replication_count * len(dataset) rows.
C7_HardNegAlways ==
    (variant = "hard_neg" /\ apc = "done") =>
        /\ Len(smiles) = replication_count * Len(dataset)
        /\ Len(transformed) = Len(smiles)
        /\ Len(hard_negatives) = Len(smiles)
        /\ \A i \in 1..Len(smiles) :
              /\ hard_negatives[i] \in Elements(smiles)
              /\ hard_negatives[i] # smiles[i]

\* C7 amended: with random_pairs enabled every row's hard_neg is a string of
\* the replicated pool other than the row's sent1; with random_pairs disabled
\* every hard_neg is the placeholder -1; in both cases the three columns have
\* replication_count * len(dataset) rows.
C7_HardNegWhenPaired ==
    (variant = "hard_neg" /\ apc = "done") =>
        /\ Len(smiles) = replication_count * Len(dataset)
        /\ Len(transformed) = Len(smiles)
        /\ Len(hard_negatives) = Len(smiles)
        /\ random_pairs =>
              \A i \in 1..Len(smiles) :
                  /\ hard_negatives[i] \in Elements(smiles)
                  /\ hard_negatives[i] # smiles[i]
        /\ ~random_pairs =>
              \A i \in 1..Len(smiles) : hard_negatives[i] = Placeholder

\* a call with random_pairs returned a table of two different originals, each
\* paired with the other as its hard negative
C7_Witness ==
    /\ variant = "hard_neg" /\ apc = "done" /\ random_pairs
    /\ Len(smiles) = 2
    /\ smiles[1] # smiles[2]
    /\ hard_negatives = <<smiles[2], smiles[1]>>

\* C8: a call of enumerate_smiles_hard_neg with random_pairs, a non-empty
\* dataset and replication_count >= 1 returns.
C8_HardNegTerminates ==
    (variant = "hard_neg" /\ random_pairs /\ replication_count >= 1 /\ apc = "start")
        ~> (apc = "done")

\* the rows the pairing loop has passed
Passed == IF apc = "pairs" THEN 1..idx ELSE 1..Len(smiles)

PairingRan == variant = "plain" /\ random_pairs /\ apc \in {"pairs", "return", "done"}

\* C9 as claimed: the row just passed was replaced by a pool draw and flagged 0
\* exactly when its draw was greater than rand_proba, and otherwise keeps its
\* decoded string and flag 1; rand_proba = 1 replaces no row; a flag is 0 exactly
\* for the replaced rows.
C9_ReplacedAboveProba ==
    PairingRan =>
        /\ (apc = "pairs" /\ idx >= 1) =>
              /\ (is_enumerated[idx] = 0) <=> (u > rand_proba)
              /\ (idx \in replaced) <=> (u > rand_proba)
        /\ rand_proba = 10 => replaced = {}
        /\ \A i \in 1..Len(smiles) : (is_enumerated[i] = 0) <=> (i \in replaced)

\* C9 amended: the row just passed was overwritten with a pool draw (cut to the
\* item width of the transformed array) and flagged 0 exactly when its draw was
\* less than or equal to rand_proba, and otherwise keeps its decoded string and
\* flag 1; rand_proba = 1 replaces every row; a flag is 0 exactly for the
\* replaced rows, and the rows not yet passed are untouched.
C9_ReplacedUpToProba ==
    PairingRan =>
        /\ (apc = "pairs" /\ idx >= 1) =>
              /\ (is_enumerated[idx] = 0) <=> (u <= rand_proba)
              /\ (idx \in replaced) <=> (u <= rand_proba)
        /\ rand_proba = 10 => replaced = Passed
        /\ replaced \subseteq Passed
        /\ \A i \in 1..Len(smiles) :
              /\ is_enumerated[i] \in {0, 1}
              /\ (is_enumerated[i] = 0) <=> (i \in replaced)
              /\ i \in replaced =>
                    \E k \in 1..Len(smiles) :
                        transformed[i] = Stored(smiles[k], ItemSize(decoded))
              /\ i \notin replaced => transformed[i] = decoded[i]

\* with rand_proba = 0.3, a row drawn 0.3 was replaced by another string and
\* the next row, drawn 0.4, was kept
C9_Witness ==
    /\ PairingRan /\ apc = "pairs" /\ idx = 2
    /\ rand_proba = 3 /\ u = 4
    /\ replaced = {1}
    /\ is_enumerated = <<0, 1>>
    /\ transformed[1] # decoded[1]
    /\ transformed[2] = decoded[2]

\* C10: with enumeration on, every row returned by enumerate_smiles with flag 1
\* holds the whole string the toolkit returned for it.
C10_FlaggedRowsWhole ==
    (variant = "plain" /\ apc = "done" /\ enumerate) =>
        \A i \in 1..Len(smiles) :
            is_enumerated[i] = 1 => transformed[i] = toolkit_out[i]

====
